---- MODULE Spec2Model ----
(***************************************************************************)
(* A model of src/convert_student_data.py: the date normaliser             *)
(* parse_date, the text cleaner clean_text and the batch loop of           *)
(* convert_student_data.                                                   *)
(*                                                                         *)
(* A Python str is a sequence of one-character strings.  None is the       *)
(* one-element sequence <<"None">>, which no str equals since its element  *)
(* is not a single character.                                              *)
(***************************************************************************)
EXTENDS Integers, Sequences, FiniteSets, TLC

VARIABLES raw_data, lines, i, line, parts, student, students, stdout, pc,
          date_str, date_ret, text, text_ret, text_ret2, fpc

runVars == <<raw_data, lines, i, line, parts, student, students, stdout, pc>>
dateVars == <<date_str, date_ret>>
textVars == <<text, text_ret, text_ret2>>
fnVars == <<date_str, date_ret, text, text_ret, text_ret2, fpc>>
vars == <<raw_data, lines, i, line, parts, student, students, stdout, pc,
          date_str, date_ret, text, text_ret, text_ret2, fpc>>

(***************************************************************************)
(* Bounds of the model.                                                    *)
(***************************************************************************)
MaxLines == 3
MaxDateLen == 5
MaxTextLen == 4

(***************************************************************************)
(* Python values and str methods.                                          *)
(***************************************************************************)
None == <<"None">>

\* The exception a try block raised, as the value of the block.
Raised == <<"Raised">>

\* The characters str.strip() removes, among those of the model's alphabet.
Whitespace == {" ", "\t", "\n"}

Digit == {"0", "1", "2", "3", "4", "5", "6", "7", "8", "9"}

DigitSeq == <<"0", "1", "2", "3", "4", "5", "6", "7", "8", "9">>

DigitVal(c) == (CHOOSE n \in 1..10 : DigitSeq[n] = c) - 1

Contains(s, c) == \E k \in 1..Len(s) : s[k] = c

\* str.lstrip()
RECURSIVE lstrip(_)
lstrip(s) == IF s = <<>> THEN s
             ELSE IF Head(s) \in Whitespace THEN lstrip(Tail(s)) ELSE s

\* str.rstrip()
RECURSIVE rstrip(_)
rstrip(s) == IF s = <<>> THEN s
             ELSE IF s[Len(s)] \in Whitespace THEN rstrip(SubSeq(s, 1, Len(s) - 1))
             ELSE s

\* str.strip()
strip(s) == rstrip(lstrip(s))

\* str.split(sep) for a one-character sep: always at least one part.
RECURSIVE split(_, _)
split(s, sep) ==
    IF ~Contains(s, sep) THEN <<s>>
    ELSE LET k == CHOOSE n \in 1..Len(s) :
                      s[n] = sep /\ \A m \in 1..(n - 1) : s[m] # sep
         IN <<SubSeq(s, 1, k - 1)>> \o split(SubSeq(s, k + 1, Len(s)), sep)

\* str.replace(c, '') for a one-character c.
remove(s, c) == SelectSeq(s, LAMBDA x : x # c)

\* s[:n]
prefix(s, n) == SubSeq(s, 1, IF Len(s) < n THEN Len(s) ELSE n)

Zeros(n) == [k \in 1..n |-> "0"]

\* str.zfill(width): zeros go after a leading sign.
zfill(s, width) ==
    IF Len(s) >= width THEN s
    ELSE IF s # <<>> /\ Head(s) \in {"+", "-"}
         THEN <<Head(s)>> \o Zeros(width - Len(s)) \o Tail(s)
         ELSE Zeros(width - Len(s)) \o s

Unsigned(s) == IF s # <<>> /\ Head(s) \in {"+", "-"} THEN Tail(s) ELSE s

\* Whether int(s) returns: surrounding whitespace and one sign are allowed,
\* then at least one digit and digits only.
int_ok(s) ==
    LET d == Unsigned(strip(s))
    IN d # <<>> /\ \A k \in 1..Len(d) : d[k] \in Digit

RECURSIVE NatOf(_)
NatOf(d) == IF d = <<>> THEN 0
            ELSE 10 * NatOf(SubSeq(d, 1, Len(d) - 1)) + DigitVal(d[Len(d)])

\* int(s), where int_ok(s).
int(s) ==
    LET t == strip(s)
    IN IF Head(t) = "-" THEN 0 - NatOf(Unsigned(t)) ELSE NatOf(Unsigned(t))

(***************************************************************************)
(* parse_date                                                              *)
(***************************************************************************)
\* The pivot year below which a two-character year is of this century.
Pivot == 50

\* SlashYear with the pivot year itself counted as of this century.
SlashYearInclusive(year) ==
    IF Len(year) # 2 THEN year
    ELSE IF ~int_ok(year) THEN Raised
    ELSE IF int(year) <= Pivot THEN <<"2", "0">> \o year
    ELSE <<"1", "9">> \o year

\* The '/' block, line 23:
\*   if len(year) == 2: year = '20' + year if int(year) < 50 else '19' + year
\* Raised when int(year) raises ValueError.
SlashYear(year) ==
    IF Len(year) # 2 THEN year
    ELSE IF ~int_ok(year) THEN Raised
    ELSE IF int(year) < Pivot THEN <<"2", "0">> \o year
    ELSE <<"1", "9">> \o year

\* The '-' block, line 35: the same statement again.
DashYear(year) ==
    IF Len(year) # 2 THEN year
    ELSE IF ~int_ok(year) THEN Raised
    ELSE IF int(year) < Pivot THEN <<"2", "0">> \o year
    ELSE <<"1", "9">> \o year

\* f"{year}-{month.zfill(2)}-{day.zfill(2)}"
FormatDate(day, month, year) ==
    year \o <<"-">> \o zfill(month, 2) \o <<"-">> \o zfill(day, 2)

\* The '/' block: the returned value, or Raised when the block falls through
\* (a part count other than 3, or an exception swallowed by the bare except).
SlashRule(s) ==
    IF Contains(s, "/") /\ Len(split(s, "/")) = 3
    THEN LET ps == split(s, "/")
             year == SlashYear(ps[3])
         IN IF year = Raised THEN Raised ELSE FormatDate(ps[1], ps[2], year)
    ELSE Raised

\* The '-' block, which runs whenever the '/' block did not return; falling
\* through it reaches the final return None.
DashRule(s) ==
    IF Contains(s, "-") /\ Len(split(s, "-")) = 3
    THEN LET ps == split(s, "-")
             year == DashYear(ps[3])
         IN IF year = Raised THEN None ELSE FormatDate(ps[1], ps[2], year)
    ELSE None

parse_date(d) ==
    IF d = <<>> \/ strip(d) = <<>> THEN None
    ELSE LET s == strip(d)
         IN IF SlashRule(s) # Raised THEN SlashRule(s) ELSE DashRule(s)

(***************************************************************************)
(* clean_text                                                              *)
(***************************************************************************)
clean_text(t) ==
    IF t = <<>> THEN <<>>
    ELSE remove(remove(strip(t), "\""), "'")

(***************************************************************************)
(* convert_student_data: the record of one line.                           *)
(***************************************************************************)
\* len(parts) < 20 skips the line.
MinFields == 20

\* The largest index the dict display reads unguarded: parts[21].
LastIndex == 21

\* The index of the guarded read: parts[22] if len(parts) > 22.
RemarksIndex == 22

\* line[:50] in the diagnostic.
PreviewLen == 50

\* parts[k], Python's zero-based index.
at(ps, k) == ps[k + 1]

\* [part.strip() for part in line.split('\t')]
Tokenize(l) == LET raw == split(l, "\t") IN [k \in 1..Len(raw) |-> strip(raw[k])]

\* Whether evaluating the dict display raises IndexError.
Raises(ps) == Len(ps) <= LastIndex

\* Remarks with the guard one too high: len(parts) > 23.
RemarksOver23(ps) ==
    IF Len(ps) > RemarksIndex + 1 THEN clean_text(at(ps, RemarksIndex)) ELSE <<>>

\* clean_text(parts[22]) if len(parts) > 22 else ""
Remarks(ps) ==
    IF Len(ps) > RemarksIndex THEN clean_text(at(ps, RemarksIndex)) ELSE <<>>

\* MakeStudent with currentStandard read from lastStandardStudied's field.
MakeStudentLastStandard(ps) ==
    [admissionNo |-> clean_text(at(ps, 0)),
     fullName |-> clean_text(at(ps, 1)),
     dateOfBirth |-> parse_date(at(ps, 2)),
     bloodGroup |-> clean_text(at(ps, 4)),
     shaakha |-> clean_text(at(ps, 5)),
     gothra |-> clean_text(at(ps, 6)),
     telephone |-> clean_text(at(ps, 7)),
     fatherName |-> clean_text(at(ps, 8)),
     motherName |-> clean_text(at(ps, 9)),
     occupation |-> clean_text(at(ps, 10)),
     nationality |-> clean_text(at(ps, 11)),
     religion |-> clean_text(at(ps, 12)),
     caste |-> clean_text(at(ps, 13)),
     motherTongue |-> clean_text(at(ps, 14)),
     presentAddress |-> clean_text(at(ps, 15)),
     permanentAddress |-> clean_text(at(ps, 16)),
     lastSchoolAttended |-> clean_text(at(ps, 17)),
     lastStandardStudied |-> clean_text(at(ps, 18)),
     tcDetails |-> clean_text(at(ps, 19)),
     admittedToStandard |-> clean_text(at(ps, 20)),
     dateOfAdmission |-> parse_date(at(ps, 21)),
     currentStandard |-> clean_text(at(ps, 18)),
     remarks |-> Remarks(ps),
     guardianEmail |-> <<>>]

\* The dict display, where it does not raise.
MakeStudent(ps) ==
    [admissionNo |-> clean_text(at(ps, 0)),
     fullName |-> clean_text(at(ps, 1)),
     dateOfBirth |-> parse_date(at(ps, 2)),
     bloodGroup |-> clean_text(at(ps, 4)),
     shaakha |-> clean_text(at(ps, 5)),
     gothra |-> clean_text(at(ps, 6)),
     telephone |-> clean_text(at(ps, 7)),
     fatherName |-> clean_text(at(ps, 8)),
     motherName |-> clean_text(at(ps, 9)),
     occupation |-> clean_text(at(ps, 10)),
     nationality |-> clean_text(at(ps, 11)),
     religion |-> clean_text(at(ps, 12)),
     caste |-> clean_text(at(ps, 13)),
     motherTongue |-> clean_text(at(ps, 14)),
     presentAddress |-> clean_text(at(ps, 15)),
     permanentAddress |-> clean_text(at(ps, 16)),
     lastSchoolAttended |-> clean_text(at(ps, 17)),
     lastStandardStudied |-> clean_text(at(ps, 18)),
     tcDetails |-> clean_text(at(ps, 19)),
     admittedToStandard |-> clean_text(at(ps, 20)),
     dateOfAdmission |-> parse_date(at(ps, 21)),
     currentStandard |-> clean_text(at(ps, 20)),
     remarks |-> Remarks(ps),
     guardianEmail |-> <<>>]

\* Python truth of a str or None.
Truthy(v) == v # None /\ v # <<>>

\* Whether the three essential fields of a record are true.
Essential(st) ==
    Truthy(st.admissionNo) /\ Truthy(st.fullName) /\ Truthy(st.dateOfBirth)

\* A local variable not yet assigned.
Unbound == [unbound |-> TRUE]

\* The message of the except clause: the line's preview and the exception.
Diagnostic(l) == [preview |-> prefix(l, PreviewLen), error |-> "IndexError"]

(***************************************************************************)
(* The inputs of the model.  A line is built from 24 fields, cut to its    *)
(* first n and joined by tabs; a blob is lines joined by line breaks.      *)
(***************************************************************************)
RECURSIVE join(_, _)
join(ss, sep) ==
    IF ss = <<>> THEN <<>>
    ELSE IF Len(ss) = 1 THEN ss[1]
    ELSE ss[1] \o <<sep>> \o join(Tail(ss), sep)

A1 == <<"A", "1">>
A2 == <<"A", "2">>
QuotedBlank == <<"\"", " ", "\"">>
JohnDoe == <<"J", "o", "h", "n", " ", "D", "o", "e">>
Dob08 == <<"1", "5", "/", "0", "5", "/", "0", "8">>
Dob72 == <<"1", "5", "-", "0", "5", "-", "7", "2">>
NotADate == <<"n", "o", "t", "-", "a", "-", "d", "a", "t", "e">>
TwoParts == <<"1", "/", "2">>
ShortYear == <<"1", "/", "2", "/", "3">>
Adm08 == <<"2", "0", "/", "0", "6", "/", "0", "8">>
Std6 == <<"6", "t", "h">>
Cancelled == <<"'", "c", "a", "n", "c", "e", "l", "l", "e", "d", "'">>

\* Fields 0..23 of a line; the fields the record does not single out hold
\* one letter each, all different.
Fields(f0, f1, f2, f21, f22) ==
    <<f0, f1, f2, <<"d">>, <<"e">>, <<"f">>, <<"g">>, <<"h">>, <<"i">>, <<"j">>,
      <<"k">>, <<"l">>, <<"m">>, <<"n">>, <<"o">>, <<"p">>, <<"q">>, <<"r">>,
      <<"s">>, <<"t">>, Std6, f21, f22, <<"x">>>>

Line(n, f0, f1, f2, f21, f22) ==
    join(SubSeq(Fields(f0, f1, f2, f21, f22), 1, n), "\t")

FieldCounts == 19..24

\* One-line blobs: every field count with every mix of the essential fields.
RichLines ==
    {Line(n, f0, f1, f2, f21, f22) :
        n \in FieldCounts,
        f0 \in {A1, <<>>, QuotedBlank},
        f1 \in {JohnDoe, <<>>},
        f2 \in {Dob08, Dob72, NotADate, TwoParts, ShortYear, <<>>},
        f21 \in {Adm08, <<>>},
        f22 \in {Cancelled, <<>>}}

\* The lines of the blobs of several lines.
\* The lines of the blobs of several lines: three accepted lines (one of
\* them ending in empty fields), a line that starts with an empty field, a
\* line that raises, a short line, a line of whitespace and an empty line.
CoreLines ==
    {Line(22, A1, JohnDoe, Dob08, Adm08, <<>>),
     Line(24, A2, JohnDoe, Dob72, Adm08, Cancelled),
     Line(23, A1, JohnDoe, Dob08, <<>>, <<>>),
     Line(22, <<>>, JohnDoe, Dob08, Adm08, <<>>),
     Line(20, A2, JohnDoe, Dob08, Adm08, <<>>),
     Line(19, A1, JohnDoe, Dob08, Adm08, <<>>),
     <<" ", "\t", " ">>,
     <<>>}

Blobs ==
    RichLines \cup
    {join(ls, "\n") : ls \in UNION {[1..n -> CoreLines] : n \in 0..MaxLines}}

(***************************************************************************)
(* convert_student_data: the run.  pc is the position in the function.     *)
(***************************************************************************)
FnIdle ==
    /\ date_str = <<>> /\ date_ret = None
    /\ text = <<>> /\ text_ret = <<>> /\ text_ret2 = <<>>
    /\ fpc = "idle"

Init ==
    /\ raw_data \in Blobs
    /\ lines = <<>>
    /\ i = 0
    /\ line = <<>>
    /\ parts = <<>>
    /\ student = Unbound
    /\ students = <<>>
    /\ stdout = <<>>
    /\ pc = "start"
    /\ FnIdle

\* The function has been entered.
AtStart == pc = "start"

\* students = []; lines = raw_data.strip().split('\n')
SplitLines ==
    /\ AtStart
    /\ lines' = split(strip(raw_data), "\n")
    /\ pc' = "for"
    /\ UNCHANGED <<raw_data, i, line, parts, student, students, stdout>>
    /\ UNCHANGED fnVars

\* for line in lines: there is a next line.
MoreLines == pc = "for" /\ i < Len(lines)

\* for line in lines: the next line is bound.
NextLine ==
    /\ MoreLines
    /\ i' = i + 1
    /\ line' = lines[i + 1]
    /\ pc' = "body"
    /\ UNCHANGED <<raw_data, lines, parts, student, students, stdout>>
    /\ UNCHANGED fnVars

\* if not line.strip()
BlankLine == pc = "body" /\ strip(line) = <<>>

\* if not line.strip(): continue
SkipBlank ==
    /\ BlankLine
    /\ pc' = "for"
    /\ UNCHANGED <<raw_data, lines, i, line, parts, student, students, stdout>>
    /\ UNCHANGED fnVars

\* if len(parts) < 20, on a line that is not blank
ShortLine ==
    pc = "body" /\ strip(line) # <<>> /\ Len(Tokenize(line)) < MinFields

\* parts = [...]; if len(parts) < 20: continue
SkipShort ==
    /\ ShortLine
    /\ parts' = Tokenize(line)
    /\ pc' = "for"
    /\ UNCHANGED <<raw_data, lines, i, line, student, students, stdout>>
    /\ UNCHANGED fnVars

\* not len(parts) < 20, on a line that is not blank
LongLine ==
    pc = "body" /\ strip(line) # <<>> /\ Len(Tokenize(line)) >= MinFields

\* parts = [...]; the try block is entered.
EnterTry ==
    /\ LongLine
    /\ parts' = Tokenize(line)
    /\ pc' = "try"
    /\ UNCHANGED <<raw_data, lines, i, line, student, students, stdout>>
    /\ UNCHANGED fnVars

\* The dict display is evaluated without an exception.
TryPasses == pc = "try" /\ ~Raises(parts)

\* The dict display raises IndexError.
TryRaises == pc = "try" /\ Raises(parts)

\* if student["admissionNo"] and student["fullName"] and student["dateOfBirth"]
HasEssentials == pc = "check" /\ Essential(student)

\* The same condition, false.
LacksEssentials == pc = "check" /\ ~Essential(student)

\* student = {...}
Assemble ==
    /\ TryPasses
    /\ student' = MakeStudent(parts)
    /\ pc' = "check"
    /\ UNCHANGED <<raw_data, lines, i, line, parts, students, stdout>>
    /\ UNCHANGED fnVars

\* Except without the guard: the exception leaves the function.
ExceptEscapes ==
    /\ TryRaises
    /\ pc' = "raised"
    /\ UNCHANGED <<raw_data, lines, i, line, parts, student, students, stdout>>
    /\ UNCHANGED fnVars

\* except Exception as e: print(...); continue
Except ==
    /\ TryRaises
    /\ stdout' = Append(stdout, Diagnostic(line))
    /\ pc' = "for"
    /\ UNCHANGED <<raw_data, lines, i, line, parts, student, students>>
    /\ UNCHANGED fnVars

\* Keep with the record put first: students.insert(0, student).
KeepFirst ==
    /\ HasEssentials
    /\ students' = <<student>> \o students
    /\ pc' = "for"
    /\ UNCHANGED <<raw_data, lines, i, line, parts, student, stdout>>
    /\ UNCHANGED fnVars

\* students.append(student)
Keep ==
    /\ HasEssentials
    /\ students' = Append(students, student)
    /\ pc' = "for"
    /\ UNCHANGED <<raw_data, lines, i, line, parts, student, stdout>>
    /\ UNCHANGED fnVars

\* The essential fields are not all there: nothing is appended.
Discard ==
    /\ LacksEssentials
    /\ pc' = "for"
    /\ UNCHANGED <<raw_data, lines, i, line, parts, student, students, stdout>>
    /\ UNCHANGED fnVars

\* for line in lines: there is no next line.
NoMoreLines == pc = "for" /\ i = Len(lines)

\* return students
Return ==
    /\ NoMoreLines
    /\ pc' = "done"
    /\ UNCHANGED <<raw_data, lines, i, line, parts, student, students, stdout>>
    /\ UNCHANGED fnVars

Next ==
    \/ SplitLines
    \/ NextLine
    \/ SkipBlank
    \/ SkipShort
    \/ EnterTry
    \/ Assemble
    \/ Except
    \/ Keep
    \/ Discard
    \/ Return

\* Whether some step of the run can be taken: the conditions of the ten
\* actions, whose assignments can always be made.
CanStep ==
    \/ AtStart
    \/ MoreLines
    \/ BlankLine
    \/ ShortLine
    \/ LongLine
    \/ TryPasses
    \/ TryRaises
    \/ HasEssentials
    \/ LacksEssentials
    \/ NoMoreLines

Spec == Init /\ [][Next]_vars

(***************************************************************************)
(* parse_date on its own: one call on each input string.                   *)
(***************************************************************************)
RunIdle ==
    /\ raw_data = <<>> /\ lines = <<>> /\ i = 0 /\ line = <<>> /\ parts = <<>>
    /\ student = Unbound /\ students = <<>> /\ stdout = <<>> /\ pc = "idle"

Strings(alphabet, n) == UNION {[1..k -> alphabet] : k \in 0..n}

DateAlphabet == {"1", "5", "/", "-", " ", "a"}

\* One or two digits.
DayMonths == Strings({"0", "1", "5", "9"}, 2) \ {<<>>}

\* Two-digit years on both sides of the pivot, and four-digit years.
Years ==
    [1..2 -> {"0", "4", "5", "9"}] \cup
    {<<"2", "0", "0", "8">>, <<"1", "9", "7", "2">>,
     <<"0", "0", "4", "9">>, <<"1", "9", "5", "0">>}

DmyDates ==
    {d \o <<sep>> \o m \o <<sep>> \o y :
        d \in DayMonths, m \in DayMonths, y \in Years, sep \in {"/", "-"}}

NamedDates ==
    {Dob08, Dob72, NotADate, TwoParts, ShortYear, Adm08,
     <<"1", "5", "/", "0", "5", "/", "7", "2">>,
     <<"2", "2", "/", "0", "6", "/", "0", "6">>,
     <<"1", "/", "2", "-", "3", "-", "4">>,
     <<"1", "-", "2", "/", "3", "/", "5", "-">>}

DateInputs == Strings(DateAlphabet, MaxDateLen) \cup DmyDates \cup NamedDates

InitDate ==
    /\ RunIdle
    /\ date_str \in DateInputs
    /\ date_ret = None
    /\ text = <<>> /\ text_ret = <<>> /\ text_ret2 = <<>>
    /\ fpc = "call"

ParseDateCall ==
    /\ fpc = "call"
    /\ date_ret' = parse_date(date_str)
    /\ fpc' = "returned"
    /\ UNCHANGED <<runVars, date_str, textVars>>

NextDate == ParseDateCall

SpecDate == InitDate /\ [][NextDate]_vars

(***************************************************************************)
(* clean_text on its own: one call on each input string, and one more on   *)
(* what it returned.                                                       *)
(***************************************************************************)
TextAlphabet == {" ", "\"", "'", "a"}

TextInputs == Strings(TextAlphabet, MaxTextLen)

InitText ==
    /\ RunIdle
    /\ date_str = <<>> /\ date_ret = None
    /\ text \in TextInputs
    /\ text_ret = <<>> /\ text_ret2 = <<>>
    /\ fpc = "call"

CleanTextCall ==
    /\ fpc = "call"
    /\ text_ret' = clean_text(text)
    /\ fpc' = "once"
    /\ UNCHANGED <<runVars, dateVars, text, text_ret2>>

CleanTextAgain ==
    /\ fpc = "once"
    /\ text_ret2' = clean_text(text_ret)
    /\ fpc' = "twice"
    /\ UNCHANGED <<runVars, dateVars, text, text_ret>>

NextText == CleanTextCall \/ CleanTextAgain

SpecText == InitText /\ [][NextText]_vars

(***************************************************************************)
(* The claims.                                                             *)
(***************************************************************************)
Last(q) == q[Len(q)]

\* A str with at least one character that is not whitespace.
NonBlank(v) == v # None /\ \E k \in 1..Len(v) : v[k] \notin Whitespace

AllDigits(v) == \A k \in 1..Len(v) : v[k] \in Digit

\* YYYY-MM-DD: four digits, two digits, two digits, joined by '-'.
Canonical(v) ==
    /\ Len(v) = 10
    /\ v[5] = "-" /\ v[8] = "-"
    /\ \A k \in {1, 2, 3, 4, 6, 7, 9, 10} : v[k] \in Digit

\* A line the claim C1 counts: at least 20 tab-separated fields, and
\* admissionNo, fullName and dateOfBirth not empty after normalisation.
Counted(l) ==
    LET fs == Tokenize(l)
    IN /\ Len(fs) >= 20
       /\ clean_text(fs[1]) # <<>>
       /\ clean_text(fs[2]) # <<>>
       /\ Truthy(parse_date(fs[3]))

\* C1: when the run has returned, the output holds as many records as there
\* are lines with at least 20 fields and non-empty admissionNo, fullName and
\* dateOfBirth, lines of exactly 20 or 21 fields included.
C1_CountOfCountedLines ==
    pc = "done" =>
        Len(students) = Cardinality({k \in 1..Len(lines) : Counted(lines[k])})

\* C2: in every state of the run, every record of the output has an
\* admissionNo and a fullName with a character that is not whitespace, and a
\* dateOfBirth that is neither None nor empty.
C2_EssentialsNonBlank ==
    \A k \in 1..Len(students) :
        /\ NonBlank(students[k].admissionNo)
        /\ NonBlank(students[k].fullName)
        /\ Truthy(students[k].dateOfBirth)

\* C3: in every state of the run, dateOfBirth and dateOfAdmission of every
\* record of the output are None or a canonical YYYY-MM-DD string.
C3_DatesCanonical ==
    \A k \in 1..Len(students) :
        /\ students[k].dateOfBirth = None \/ Canonical(students[k].dateOfBirth)
        /\ students[k].dateOfAdmission = None
              \/ Canonical(students[k].dateOfAdmission)

\* The date strings C4 calls unparseable: "not-a-date", and a string that
\* splits into two parts on '/'.
Unparseable(v) ==
    v = NotADate \/ (Contains(v, "/") /\ Len(split(v, "/")) = 2)

\* C4: a line whose field 2 is an unparseable date string gets dateOfBirth
\* None, and the step that follows its assembly appends nothing.
C4_UnparseableDropped ==
    [][(pc = "check" /\ Unparseable(at(parts, 2)))
          => (student.dateOfBirth = None /\ students' = students)]_vars

\* Whether the '/' handling of a stripped input fails: not 3 parts, or a
\* two-character year that int() rejects.
SlashFails(v) ==
    \/ Len(split(v, "/")) # 3
    \/ LET year == split(v, "/")[3] IN Len(year) = 2 /\ ~int_ok(year)

\* C5: parse_date of a string that contains '/' and whose '/' handling fails
\* is None.
C5_SlashFailureIsNone ==
    (fpc = "returned" /\ Contains(strip(date_str), "/")
        /\ SlashFails(strip(date_str)))
        => date_ret = None

\* One digit padded to two.
Pad2(v) == IF Len(v) = 1 THEN <<"0">> \o v ELSE v

\* The year of a date: a 2-digit year gets the century of its side of 50.
FullYear(y) ==
    IF Len(y) = 4 THEN y
    ELSE IF 10 * DigitVal(y[1]) + DigitVal(y[2]) < 50 THEN <<"2", "0">> \o y
    ELSE <<"1", "9">> \o y

\* v with every a replaced by b.
Swap(v, a, b) == [k \in 1..Len(v) |-> IF v[k] = a THEN b ELSE v[k]]

\* What C6 says of an input d<sep>m<sep>y, the separators at a and b: day
\* and month of 1 or 2 digits, year of 2 or 4 digits.
DmyReturns(sep, other, a, b) ==
    LET d == SubSeq(date_str, 1, a - 1)
        m == SubSeq(date_str, a + 1, b - 1)
        y == SubSeq(date_str, b + 1, Len(date_str))
    IN (/\ date_str[a] = sep /\ date_str[b] = sep
        /\ AllDigits(d) /\ AllDigits(m) /\ AllDigits(y)
        /\ Len(d) \in {1, 2} /\ Len(m) \in {1, 2} /\ Len(y) \in {2, 4})
       => /\ date_ret = FullYear(y) \o <<"-">> \o Pad2(m) \o <<"-">> \o Pad2(d)
          /\ parse_date(Swap(date_str, sep, other)) = date_ret

\* C6: parse_date of d, m, y joined by '/' or by '-', with d and m of 1 or 2
\* digits, is "20yy-mm-dd" for a 2-digit year below 50, "19yy-mm-dd" for one
\* from 50 on and "yyyy-mm-dd" for a 4-digit year, month and day padded to
\* two digits; the '/' and the '-' form of a date give the same result.
C6_PivotAndPadding ==
    fpc = "returned" =>
        \A a \in 2..3 : \A b \in (a + 2)..(a + 3) :
            b < Len(date_str) =>
                /\ DmyReturns("/", "-", a, b)
                /\ DmyReturns("-", "/", a, b)

\* A state C6 is about: "15/05/72" has returned "1972-05-15".
C6_Witness ==
    /\ fpc = "returned"
    /\ date_str = <<"1", "5", "/", "0", "5", "/", "7", "2">>
    /\ date_ret = <<"1", "9", "7", "2", "-", "0", "5", "-", "1", "5">>

\* C7: clean_text of what clean_text returned is what it returned.
C7_CleanTextIdempotent == fpc = "twice" => text_ret2 = text_ret

\* The appended record's remarks, with the guard len(parts) > n.
RemarksGuarded(n) ==
    Len(students') > Len(students) =>
        Last(students').remarks =
            IF Len(parts) > n THEN clean_text(at(parts, 22)) ELSE <<>>

\* C8 as stated: the remarks of an emitted record are field 22 only when
\* the line has more than 23 fields, and empty otherwise.
C8_RemarksOver23 == [][RemarksGuarded(23)]_vars

\* C8 as amended: the remarks of an emitted record are field 22, cleaned,
\* when the line has more than 22 fields, and empty when it has exactly 22.
C8_RemarksOver22 == [][RemarksGuarded(22)]_vars

\* A state C8 is about: a line of exactly 23 fields gave a record whose
\* remarks are its field 22.
C8_Witness ==
    /\ pc = "done"
    /\ Len(lines) = 1
    /\ Len(parts) = 23
    /\ Len(students) = 1
    /\ students[1].remarks = <<"c", "a", "n", "c", "e", "l", "l", "e", "d">>

\* Whether assembling the line raises.
RaisesOn(l) ==
    LET n == Len(Tokenize(l)) IN strip(l) # <<>> /\ n >= 20 /\ n < 22

\* The records a line gives: one if it is accepted, none otherwise.
Outcome(l) ==
    LET fs == Tokenize(l)
        st == MakeStudent(fs)
    IN IF strip(l) = <<>> \/ Len(fs) < 22 THEN <<>>
       ELSE IF Essential(st) THEN <<st>>
       ELSE <<>>

\* The records of the lines ls, in the order of the lines.
RECURSIVE Collected(_)
Collected(ls) ==
    IF ls = <<>> THEN <<>>
    ELSE Collected(SubSeq(ls, 1, Len(ls) - 1)) \o Outcome(Last(ls))

\* The lines whose iteration has ended.
Processed == SubSeq(lines, 1, IF pc \in {"body", "try", "check"} THEN i - 1 ELSE i)

\* C9: in every state of the run the output is the records of the accepted
\* lines processed so far, one per line and in the order of the lines:
\* nothing is reordered, merged or removed.
C9_InputOrder == students = Collected(Processed)

\* A state C9 is about: three accepted lines, the first two identical, gave
\* three records in the order of the lines.
C9_Witness ==
    /\ pc = "done"
    /\ Len(lines) = 3
    /\ lines[1] = lines[2]
    /\ Len(students) = 3
    /\ students[1] = students[2]
    /\ students[3] # students[2]

\* The diagnostics of the lines ls: one for each line that raises.
RECURSIVE Diagnostics(_)
Diagnostics(ls) ==
    IF ls = <<>> THEN <<>>
    ELSE Diagnostics(SubSeq(ls, 1, Len(ls) - 1)) \o
         (IF RaisesOn(Last(ls)) THEN <<Diagnostic(Last(ls))>> ELSE <<>>)

\* C10: in every state of the run, exactly one diagnostic has been printed
\* for each processed line whose assembly raised, the output is what the
\* processed lines give with those lines left out, and the run is never
\* stopped short of its return: it can take a step unless it has returned.
C10_ExceptionIsPerLine ==
    /\ stdout = Diagnostics(Processed)
    /\ students = Collected(SelectSeq(Processed, LAMBDA l : ~RaisesOn(l)))
    /\ pc # "done" => CanStep

\* A state C10 is about: the second of three lines raised, and the lines
\* before and after it gave their records.
C10_Witness ==
    /\ pc = "done"
    /\ Len(lines) = 3
    /\ RaisesOn(lines[2])
    /\ Len(stdout) = 1
    /\ Len(students) = 2

\* The records of the output stay as they were appended.
RecordsFrozen ==
    /\ Len(students') >= Len(students)
    /\ \A k \in 1..Len(students) : students'[k] = students[k]

\* C11: in every state of the run, currentStandard equals admittedToStandard
\* in every record of the output, and no step changes a record that is in
\* the output.
C11_CurrentIsAdmitted ==
    /\ [](\A k \in 1..Len(students) :
            students[k].currentStandard = students[k].admittedToStandard)
    /\ [][RecordsFrozen]_vars

\* A state C11 is about: the run has returned two records, each with the
\* standard "6th" of its line's field 20 in both fields.
C11_Witness ==
    /\ pc = "done"
    /\ Len(students) = 2
    /\ \A k \in 1..2 :
           /\ students[k].admittedToStandard = Std6
           /\ students[k].currentStandard = Std6

\* The lines of the blob as it was given, before anything is stripped.
GivenLines == split(raw_data, "\n")

\* C12: when the run has returned, each line of the blob has had the outcome
\* its own content gives, wherever it stands: the output is the records of
\* the given lines, and there is one diagnostic for each given line whose
\* assembly raises.
C12_PositionIndependent ==
    pc = "done" =>
        /\ students = Collected(GivenLines)
        /\ Len(stdout) = Len(Diagnostics(GivenLines))

====
